---- MODULE Spec2Model ----
(***************************************************************************)
(* Dispatch engine of the fleet hub: the command and content publisher     *)
(* services (session registry + pending-ack table), the gRPC controllers   *)
(* that attach device streams and route acknowledgements, and the timers   *)
(* armed by waitForAck / waitForAckWithProgress.                           *)
(*                                                                         *)
(* One behaviour follows one publisher service (kind is drawn in Init):    *)
(* CommandPublisherService and ContentPublisherService share no state.     *)
(*                                                                         *)
(* Subjects are numbered per device in creation order; inner Maps of the   *)
(* pending-ack table are numbered by the call that created them, because   *)
(* the timer callbacks keep a reference to the Map object itself. The      *)
(* connectedAt / lastActivity timestamps and console output are left out.  *)
(***************************************************************************)
EXTENDS Naturals, Integers, Sequences, FiniteSets, TLC

\* ---------------------------------------------------------------- bounds
MaxCalls == 2
MaxSubjects == 3
MaxUpdates == 1
MaxFanouts == 1
MaxBroadcasts == 1

Devices == {"d1", "d2"}
CorrIds == {"c1", "c2"}
Messages == {"m1", "m2"}
Kinds == {"command", "content"}
FleetIds == {"f1"}
\* the fleets of the membership bookkeeping runs
AllFleetIds == {"f1", "f2", "f3"}

\* ------------------------------------------------------- status enums
CommandStatuses == {"UNSPECIFIED", "RECEIVED", "COMPLETED", "FAILED", "REJECTED"}
ContentStatuses == {"UNSPECIFIED", "RECEIVED", "IN_PROGRESS", "COMPLETED", "PARTIAL", "FAILED"}

CommandFinalStatuses == {"COMPLETED", "FAILED", "REJECTED"}
\* RECEIVED taken for a final status
ContentFinalStatuses_Early == {"RECEIVED", "COMPLETED", "PARTIAL", "FAILED"}

ContentFinalStatuses == {"COMPLETED", "PARTIAL", "FAILED"}

VARIABLES
  kind,           \* which publisher service this behaviour follows
  subscriptions,  \* Map<deviceId, Subject>: the device's n-th Subject, 0 = no entry
  attaches,       \* number of Subjects constructed for each device so far
  completed,      \* per device, the Subjects on which complete() has been called
  deviceInfo,     \* keys of the deviceInfo map (command service only)
  deviceStream,   \* Subject whose gRPC stream the device still holds open, 0 = none
  pendingAcks,    \* outer Map<deviceId, Map>: id of the inner Map, 0 = no entry
  inner,          \* inner Map objects: inner[m][cid] = call owning the entry, 0 = none
  calls,          \* every dispatch call made so far, with its promise / observer
  destroyed,      \* onModuleDestroy has run
  fleets,         \* FleetService.fleets: per fleet id, whether it exists and its member ids in insertion order
  deviceToFleets, \* FleetService.deviceToFleets: per device, whether it has an entry and the fleet ids in it
  fanouts,        \* every fleet broadcast call made so far, with its position in the member loop
  bcasts          \* every send-to-all call of the publisher made so far (broadcast, broadcastStream)

fleetVars == <<fleets, deviceToFleets, fanouts>>

vars == <<kind, subscriptions, attaches, completed, deviceInfo, deviceStream,
          pendingAcks, inner, calls, destroyed, fleets, deviceToFleets, fanouts, bcasts>>

\* ------------------------------------------------------------ results
NoResult == [by |-> "none", success |-> FALSE, errorMessage |-> "", timedOut |-> FALSE, status |-> "-", ackMessage |-> "-"]

NotConnectedResult == [by |-> "notconnected", success |-> FALSE, errorMessage |-> "Device not connected", timedOut |-> FALSE, status |-> "-", ackMessage |-> "-"]

\* the return without ack reported as a failure
NoAckResult_Unsuccessful == [by |-> "noack", success |-> FALSE, errorMessage |-> "", timedOut |-> FALSE, status |-> "-", ackMessage |-> "-"]

NoAckResult == [by |-> "noack", success |-> TRUE, errorMessage |-> "", timedOut |-> FALSE, status |-> "-", ackMessage |-> "-"]

DisconnectedResult == [by |-> "disconnected", success |-> FALSE, errorMessage |-> "Device disconnected", timedOut |-> FALSE, status |-> "-", ackMessage |-> "-"]

ShutdownResult == [by |-> "shutdown", success |-> FALSE, errorMessage |-> "Service shutting down", timedOut |-> FALSE, status |-> "-", ackMessage |-> "-"]

TimeoutResult == [by |-> "timeout", success |-> FALSE, errorMessage |-> "ACK timeout", timedOut |-> TRUE, status |-> "-", ackMessage |-> "-"]

FinalStatuses(k) == IF k = "command" THEN CommandFinalStatuses ELSE ContentFinalStatuses

StatusesOf(k) == IF k = "command" THEN CommandStatuses ELSE ContentStatuses

\* PARTIAL counted as success
IsSuccess_Partial(st) == st \in {"COMPLETED", "PARTIAL"}

IsSuccess(st) == st = "COMPLETED"

\* by, status and ackMessage record which event produced the result and the
\* acknowledgement it came from; the other fields are the AckResult object.
AckResult(st, msg) == [by |-> "ack", success |-> IsSuccess(st), errorMessage |-> msg, timedOut |-> FALSE, status |-> st, ackMessage |-> msg]

\* ProgressUpdate objects handed to the observer of a streaming dispatch
Update(final, st, hasSucc, succ, msg, to, why) == [isFinal |-> final, status |-> st, hasSuccess |-> hasSucc, success |-> succ, errorMessage |-> msg, timedOut |-> to, by |-> why]

AckUpdate(k, st, msg) == Update(st \in FinalStatuses(k), st, st \in FinalStatuses(k), (st \in FinalStatuses(k)) /\ IsSuccess(st), msg, FALSE, "ack")

TimeoutUpdate == Update(TRUE, "FAILED", TRUE, FALSE, "ACK timeout", TRUE, "timeout")

\* the update of a missing session not marked final
NotConnectedUpdate_Open == Update(FALSE, "FAILED", TRUE, FALSE, "Device not connected", FALSE, "notconnected")

NotConnectedUpdate == Update(TRUE, "FAILED", TRUE, FALSE, "Device not connected", FALSE, "notconnected")

NoAckUpdate == Update(TRUE, "COMPLETED", TRUE, TRUE, "", FALSE, "noack")

\* ------------------------------------------------- promise / observer
\* pending.resolve(result): the Promise's resolve for a unary waiter (only the
\* first call settles it), the empty function for a streaming waiter.
Settle(c, r) == IF c.streaming THEN c ELSE IF c.result.by = "none" THEN [c EXCEPT !.result = r] ELSE c

\* onProgress(update): subscriber.next(update), then subscriber.complete() on a
\* final update; both are no-ops once the subscriber is stopped or unsubscribed.
Emit(c, u) == IF c.ended \/ c.unsubscribed THEN c ELSE [c EXCEPT !.updates = Append(@, u), !.ended = u.isFinal]

Range(q) == {q[k] : k \in DOMAIN q}

LastUpdate(c) == c.updates[Len(c.updates)]

EmptyMap == [c \in CorrIds |-> 0]

MapIsEmpty(m) == \A c \in CorrIds : m[c] = 0

\* the waiters stored in inner Map m (0 stands for "no Map")
WaitersOf(m) == IF m = 0 THEN {} ELSE {inner[m][c] : c \in CorrIds} \ {0}

NewCall(d, cid, ra, str) == [dev |-> d, cid |-> cid, requiresAck |-> ra, streaming |-> str, wrote |-> 0, map |-> 0, timer |-> "none", result |-> NoResult, updates |-> <<>>, ended |-> FALSE, unsubscribed |-> FALSE]

\* a fleet id without a fleet, a device without a reverse-index entry
NoFleet == [exists |-> FALSE, members |-> <<>>]

NoEntry == [has |-> FALSE, ids |-> {}]

\* ------------------------------------------------------------- Init
Init ==
  /\ kind \in Kinds
  /\ subscriptions = [d \in Devices |-> 0]
  /\ attaches = [d \in Devices |-> 0]
  /\ completed = [d \in Devices |-> {}]
  /\ deviceInfo = {}
  /\ deviceStream = [d \in Devices |-> 0]
  /\ pendingAcks = [d \in Devices |-> 0]
  /\ inner = [m \in 1..MaxCalls |-> EmptyMap]
  /\ calls = <<>>
  /\ destroyed = FALSE
  /\ fleets = [f \in AllFleetIds |-> NoFleet]
  /\ deviceToFleets = [d \in Devices |-> NoEntry]
  /\ fanouts = <<>>
  /\ bcasts = <<>>

\* ------------------------------------------------------ unsubscribe
\* unsubscribe(deviceId): every waiter of the device's inner Map is resolved
\* "Device disconnected" and the outer entry is deleted; the inner Map object
\* itself is not cleared.
\* the outer entry kept on unsubscribe
UnsubscribeTable_Keep(d) == pendingAcks

\* the outer entries of every device deleted on unsubscribe
UnsubscribeTable_All(d) == [e \in Devices |-> 0]

\* "this.pendingAcks.delete(deviceId)"
UnsubscribeTable(d) == [pendingAcks EXCEPT ![d] = 0]

UnsubscribeCalls(d) == [j \in DOMAIN calls |-> IF j \in WaitersOf(pendingAcks[d]) THEN Settle(calls[j], DisconnectedResult) ELSE calls[j]]

\* ---------------------------------------------------------- subscribe
RECURSIVE SumOver(_, _)
SumOver(f, S) == IF S = {} THEN 0 ELSE LET x == CHOOSE y \in S : TRUE IN f[x] + SumOver(f, S \ {x})

TotalAttaches == SumOver(attaches, Devices)

\* an existing Subject kept instead of being replaced
SubjectAfterSubscribe_Keep(d) == IF subscriptions[d] # 0 THEN subscriptions[d] ELSE attaches[d] + 1

\* the Subject the registry holds for d when subscribe returns
SubjectAfterSubscribe(d) == attaches[d] + 1

\* the replaced Subject left open
CompletedAfterReplace_Open(d) == completed

\* "this.subscriptions.get(deviceId)?.complete()" of subscribe
CompletedAfterReplace(d) == [completed EXCEPT ![d] = @ \cup {subscriptions[d]}]

\* the entry of a re-attaching device deleted with its replaced session
DeviceInfoAfterSubscribe_Dropped(d) == IF kind = "command" /\ subscriptions[d] = 0 THEN deviceInfo \cup {d} ELSE deviceInfo \ {d}

\* "this.deviceInfo.set(deviceId, ...)" of the command publisher's subscribe,
\* after the unsubscribe of a replaced session deleted the old entry
DeviceInfoAfterSubscribe(d) == IF kind = "command" THEN deviceInfo \cup {d} ELSE deviceInfo

\* Controller subscribe handler: publisher.subscribe (which completes a
\* replaced Subject, whose complete observer runs unsubscribe) and the
\* registration of the complete observer on the new Subject.
Subscribe(d) ==
  /\ TotalAttaches < MaxSubjects
  /\ attaches' = [attaches EXCEPT ![d] = @ + 1]
  /\ IF subscriptions[d] # 0
       THEN /\ completed' = CompletedAfterReplace(d)
            /\ calls' = UnsubscribeCalls(d)
            /\ pendingAcks' = UnsubscribeTable(d)
       ELSE UNCHANGED <<completed, calls, pendingAcks>>
  /\ subscriptions' = [subscriptions EXCEPT ![d] = SubjectAfterSubscribe(d)]
  /\ deviceInfo' = DeviceInfoAfterSubscribe(d)
  /\ deviceStream' = [deviceStream EXCEPT ![d] = attaches[d] + 1]
  /\ UNCHANGED fleetVars
  /\ UNCHANGED bcasts
  /\ UNCHANGED <<kind, inner, destroyed>>

\* The device closes (cancels) its stream. The handlers register only a
\* complete observer on the Subject, which a cancelled call never triggers.
DeviceClose(d) ==
  /\ deviceStream[d] # 0
  /\ deviceStream' = [deviceStream EXCEPT ![d] = 0]
  /\ UNCHANGED fleetVars
  /\ UNCHANGED bcasts
  /\ UNCHANGED <<kind, subscriptions, attaches, completed, deviceInfo, pendingAcks, inner, calls, destroyed>>

\* ------------------------------------------------------------ waiters
\* the connection check left out
Connected_Always(d) == TRUE

\* the guard "!stream$ || stream$.closed" negated: complete() does not set
\* Subject.closed, and a completed Subject never stays in the registry
Connected(d) == subscriptions[d] # 0

\* the publisher state a dispatch reads and writes
Table == [pendingAcks |-> pendingAcks, inner |-> inner, calls |-> calls]

\* waitForAck / waitForAckWithProgress, registration part: the device's inner
\* Map is created when the outer Map has no entry, the PendingAck is stored
\* under its correlation id (Map.set overwrites) and the timer is armed. The
\* timer callback keeps a reference to that inner Map object.
\* sendCommand / publishToDevice as a function of the publisher state:
\* the not-connected return, the write, the return without ack, waitForAck
SendIn(s, d, cid, ra) ==
  LET k == Len(s.calls) + 1
      m == IF s.pendingAcks[d] = 0 THEN k ELSE s.pendingAcks[d]
  IN IF ~Connected(d)
       THEN [s EXCEPT !.calls = Append(@, [NewCall(d, cid, ra, FALSE) EXCEPT !.result = NotConnectedResult])]
       ELSE IF ~ra
         THEN [s EXCEPT !.calls = Append(@, [NewCall(d, cid, ra, FALSE) EXCEPT !.wrote = subscriptions[d], !.result = NoAckResult])]
         ELSE [pendingAcks |-> [s.pendingAcks EXCEPT ![d] = m],
               inner |-> [s.inner EXCEPT ![m][cid] = k],
               calls |-> Append(s.calls, [NewCall(d, cid, ra, FALSE) EXCEPT !.wrote = subscriptions[d], !.map = m, !.timer = "armed"])]

\* sendCommand / publishToDevice
SendToDevice(d, cid, ra) ==
  /\ Len(calls) < MaxCalls
  /\ pendingAcks' = SendIn(Table, d, cid, ra).pendingAcks
  /\ inner' = SendIn(Table, d, cid, ra).inner
  /\ calls' = SendIn(Table, d, cid, ra).calls
  /\ UNCHANGED fleetVars
  /\ UNCHANGED bcasts
  /\ UNCHANGED <<kind, subscriptions, attaches, completed, deviceInfo, deviceStream, destroyed>>

\* the frame written and the stream handed out without a waiter registered
StreamIn_WriteOnly(s, d, cid, ra) == [s EXCEPT !.calls = Append(@, [NewCall(d, cid, ra, TRUE) EXCEPT !.wrote = subscriptions[d]])]

\* publishToDeviceStream and the subscribe of its Observable, as a function
\* of the publisher state
StreamIn(s, d, cid, ra) ==
  LET k == Len(s.calls) + 1
      m == IF s.pendingAcks[d] = 0 THEN k ELSE s.pendingAcks[d]
  IN IF ~Connected(d)
       THEN [s EXCEPT !.calls = Append(@, Emit(NewCall(d, cid, ra, TRUE), NotConnectedUpdate))]
       ELSE IF ~ra
         THEN [s EXCEPT !.calls = Append(@, Emit([NewCall(d, cid, ra, TRUE) EXCEPT !.wrote = subscriptions[d]], NoAckUpdate))]
         ELSE [pendingAcks |-> [s.pendingAcks EXCEPT ![d] = m],
               inner |-> [s.inner EXCEPT ![m][cid] = k],
               calls |-> Append(s.calls, [NewCall(d, cid, ra, TRUE) EXCEPT !.wrote = subscriptions[d], !.map = m, !.timer = "armed"])]

\* publishToDeviceStream together with the subscribe of the HTTP handler
StreamToDevice(d, cid, ra) ==
  /\ kind = "content"
  /\ Len(calls) < MaxCalls
  /\ pendingAcks' = StreamIn(Table, d, cid, ra).pendingAcks
  /\ inner' = StreamIn(Table, d, cid, ra).inner
  /\ calls' = StreamIn(Table, d, cid, ra).calls
  /\ UNCHANGED fleetVars
  /\ UNCHANGED bcasts
  /\ UNCHANGED <<kind, subscriptions, attaches, completed, deviceInfo, deviceStream, destroyed>>

\* --------------------------------------------------------- send-to-all
\* One call of broadcast / broadcastCommand (streaming = FALSE) or of
\* broadcastStream (streaming = TRUE): the devices it found in the registry,
\* the dispatch calls it made for them, and for broadcastStream the counters
\* of its closure and the events handed to its subscriber.
NewBcast(str, cid, ra, ds) == [streaming |-> str, cid |-> cid, requiresAck |-> ra, devices |-> ds, calls |-> <<>>, totalDevices |-> Len(ds), completedDevices |-> 0, successfulCount |-> 0, failedCount |-> 0, events |-> <<>>, closed |-> FALSE, cancelled |-> FALSE]

StartedEvent(b) == [type |-> "started", deviceId |-> "-", isFinal |-> FALSE, totalDevices |-> b.totalDevices, completedDevices |-> 0, successful |-> 0, failed |-> 0]

UpdateEvent(b, d, u) == [type |-> "update", deviceId |-> d, isFinal |-> u.isFinal, totalDevices |-> b.totalDevices, completedDevices |-> b.completedDevices, successful |-> 0, failed |-> 0]

CompleteEvent(b) == [type |-> "complete", deviceId |-> "-", isFinal |-> FALSE, totalDevices |-> b.totalDevices, completedDevices |-> 0, successful |-> b.successfulCount, failed |-> b.failedCount]

\* subscriber.next / subscriber.complete of the broadcastStream Observable:
\* no-ops once it has completed or its consumer has unsubscribed
PushEvent(b, e) == IF b.closed \/ b.cancelled THEN b ELSE [b EXCEPT !.events = Append(@, e)]

CloseBcast(b) == IF b.cancelled THEN b ELSE [b EXCEPT !.closed = TRUE]

\* every update counted as a finished device
Counted_Every(b, u) == IF u.isFinal /\ u.success THEN [b EXCEPT !.completedDevices = @ + 1, !.successfulCount = @ + 1] ELSE [b EXCEPT !.completedDevices = @ + 1, !.failedCount = @ + 1]

\* the counters after a final update
Counted(b, u) == IF ~u.isFinal THEN b ELSE IF u.success THEN [b EXCEPT !.completedDevices = @ + 1, !.successfulCount = @ + 1] ELSE [b EXCEPT !.completedDevices = @ + 1, !.failedCount = @ + 1]

\* the complete event sent whenever a device's stream completes
WhenAllDone_Every(b) == CloseBcast(PushEvent(b, CompleteEvent(b)))

\* the complete callback of a device's stream
WhenAllDone(b) == IF b.completedDevices >= b.totalDevices THEN CloseBcast(PushEvent(b, CompleteEvent(b))) ELSE b

\* the next callback for update u of device d, followed by the complete
\* callback when u is final (the device's stream completes right after it)
OnUpdate(b, d, u) == IF u.isFinal THEN WhenAllDone(Counted(PushEvent(b, UpdateEvent(b, d, u)), u)) ELSE Counted(PushEvent(b, UpdateEvent(b, d, u)), u)

\* a handler that made a dispatch call emit an update passes it on to the
\* broadcastStream call the dispatch belongs to (one update per handler)
Relay(bs, old, new) == [n \in DOMAIN bs |->
   IF bs[n].streaming /\ \E k \in Range(bs[n].calls) : Len(new[k].updates) > Len(old[k].updates)
     THEN LET k == CHOOSE k \in Range(bs[n].calls) : Len(new[k].updates) > Len(old[k].updates)
          IN OnUpdate(bs[n], new[k].dev, LastUpdate(new[k]))
     ELSE bs[n]]

\* ------------------------------------------------------- acknowledge
\* The entry the table holds for (d, cid), 0 when there is none
Pending(d, cid) == IF pendingAcks[d] = 0 THEN 0 ELSE inner[pendingAcks[d]][cid]

\* the same lookup as a function of the publisher state
PendingIn(s, d, cid) == IF s.pendingAcks[d] = 0 THEN 0 ELSE s.inner[s.pendingAcks[d]][cid]

\* does acknowledge look the waiter up for this status?
LooksUp(k, st) == IF k = "command" THEN st \in FinalStatuses(k) ELSE TRUE

\* a progress acknowledgement replacing the waiter's timer by a new one
AfterAck_Rearmed(c, st, msg) == IF st \in FinalStatuses(kind) THEN Settle(Emit(c, AckUpdate(kind, st, msg)), AckResult(st, msg)) ELSE [Emit(c, AckUpdate(kind, st, msg)) EXCEPT !.timer = "rearmed"]

\* what acknowledge does to a streaming dispatch: pending.onProgress(update)
\* and, on a final status, pending.resolve; the timer is not touched
AfterAck(c, st, msg) == IF st \in FinalStatuses(kind) THEN Settle(Emit(c, AckUpdate(kind, st, msg)), AckResult(st, msg)) ELSE Emit(c, AckUpdate(kind, st, msg))

\* the waiter left in the Map after a final acknowledgement
InnerAfterAck_Keep(inn, m, cid) == inn

\* devicePending.delete(id)
InnerAfterAck(inn, m, cid) == [inn EXCEPT ![m][cid] = 0]

\* publisher.acknowledge as a function of the publisher state: nothing
\* happens without a waiter under (d, cid); a waiter gets the progress update
\* (content) and, on a final status, is deleted and resolved
AckIn(s, d, cid, st, msg) ==
  LET i == PendingIn(s, d, cid)
      m == s.pendingAcks[d]
      inn == InnerAfterAck(s.inner, m, cid)
  IN IF ~LooksUp(kind, st) \/ i = 0
       THEN s
       ELSE IF st \in FinalStatuses(kind)
         THEN [pendingAcks |-> IF MapIsEmpty(inn[m]) THEN [s.pendingAcks EXCEPT ![d] = 0] ELSE s.pendingAcks,
               inner |-> inn,
               calls |-> [s.calls EXCEPT ![i] = IF @.streaming THEN AfterAck(@, st, msg) ELSE Settle(@, AckResult(st, msg))]]
         ELSE [s EXCEPT !.calls[i] = IF @.streaming THEN AfterAck(@, st, msg) ELSE @]

\* the reply accepting only an acknowledgement that found its waiter
AcknowledgeResponse_Found(d, cid, st) == [accepted |-> Pending(d, cid) # 0, retryAfterSeconds |-> 0]

\* the reply of the Acknowledge RPC: "return { accepted: true }" of the
\* publisher, retryAfterSeconds 0 of the controller
AcknowledgeResponse(d, cid, st) == [accepted |-> TRUE, retryAfterSeconds |-> 0]

\* Controller acknowledge handler; an acknowledgement that finds no waiter
\* changes nothing and is no step
Acknowledge(d, cid, st, msg) ==
  /\ st \in StatusesOf(kind)
  /\ LooksUp(kind, st)
  /\ Pending(d, cid) # 0
  /\ (st \notin FinalStatuses(kind)) => Len(calls[Pending(d, cid)].updates) < MaxUpdates
  /\ pendingAcks' = AckIn(Table, d, cid, st, msg).pendingAcks
  /\ inner' = AckIn(Table, d, cid, st, msg).inner
  /\ calls' = AckIn(Table, d, cid, st, msg).calls
  /\ UNCHANGED fleetVars
  /\ bcasts' = Relay(bcasts, calls, calls')
  /\ UNCHANGED <<kind, subscriptions, attaches, completed, deviceInfo, deviceStream, destroyed>>

\* ------------------------------------------------------------- timers
\* the lookup left out: the callback always takes its waiter for pending
StillPending_Always(i) == TRUE

\* "const stillPending = devicePending.get(id)" in the captured inner Map
StillPending(i) == inner[calls[i].map][calls[i].cid] # 0

\* The setTimeout callback of call i: it looks its correlation id up in the
\* inner Map captured at registration; when an entry is there it deletes it,
\* deletes the device's outer entry when that Map became empty, and resolves
\* its own promise (unary) or emits the timeout update on its own observer.
TimerFire(i) ==
  /\ i \in DOMAIN calls
  /\ calls[i].timer = "armed"
  /\ IF StillPending(i)
       THEN /\ inner' = [inner EXCEPT ![calls[i].map][calls[i].cid] = 0]
            /\ pendingAcks' = IF MapIsEmpty(inner'[calls[i].map]) THEN [pendingAcks EXCEPT ![calls[i].dev] = 0] ELSE pendingAcks
            /\ calls' = [calls EXCEPT ![i] = [(IF @.streaming THEN Emit(@, TimeoutUpdate) ELSE Settle(@, TimeoutResult)) EXCEPT !.timer = "fired"]]
       ELSE /\ calls' = [calls EXCEPT ![i].timer = "fired"]
            /\ UNCHANGED <<inner, pendingAcks>>
  /\ UNCHANGED fleetVars
  /\ bcasts' = Relay(bcasts, calls, calls')
  /\ UNCHANGED <<kind, subscriptions, attaches, completed, deviceInfo, deviceStream, destroyed>>

\* The consumer of a streaming dispatch goes away: subscription.unsubscribe();
\* the teardown of publishToDeviceStream is empty.
Cancel(i) ==
  /\ i \in DOMAIN calls
  /\ calls[i].streaming
  /\ ~calls[i].ended
  /\ ~calls[i].unsubscribed
  /\ \A n \in DOMAIN bcasts : i \notin Range(bcasts[n].calls)
  /\ calls' = [calls EXCEPT ![i].unsubscribed = TRUE]
  /\ UNCHANGED fleetVars
  /\ UNCHANGED bcasts
  /\ UNCHANGED <<kind, subscriptions, attaches, completed, deviceInfo, deviceStream, pendingAcks, inner, destroyed>>

\* ----------------------------------------------------------- shutdown
\* onModuleDestroy: every waiter in the table is resolved "Service shutting
\* down", the table is cleared, every Subject is completed (its complete
\* observer runs unsubscribe on an already empty table), the registry cleared.
AllWaiters == UNION {WaitersOf(pendingAcks[d]) : d \in Devices}

OnModuleDestroy ==
  /\ ~destroyed
  /\ destroyed' = TRUE
  /\ calls' = [j \in DOMAIN calls |-> IF j \in AllWaiters THEN Settle(calls[j], ShutdownResult) ELSE calls[j]]
  /\ pendingAcks' = [d \in Devices |-> 0]
  /\ completed' = [d \in Devices |-> completed[d] \cup ({subscriptions[d]} \ {0})]
  /\ subscriptions' = [d \in Devices |-> 0]
  /\ deviceInfo' = {}
  /\ deviceStream' = [d \in Devices |-> 0]
  /\ UNCHANGED fleetVars
  /\ UNCHANGED bcasts
  /\ UNCHANGED <<kind, attaches, inner>>

\* ------------------------------------------------------------- fleets
\* member lists a fleet is created with (keys of a Map, in insertion order)
MemberLists == {<<>>, <<"d1">>, <<"d2">>, <<"d1", "d2">>, <<"d2", "d1">>}

\* addDeviceToFleetInternal, reverse-index part, for one device and for a list
IndexAdd(idx, f, d) == [idx EXCEPT ![d] = [has |-> TRUE, ids |-> @.ids \cup {f}]]

RECURSIVE IndexAddAll(_, _, _)
IndexAddAll(idx, f, ds) == IF ds = <<>> THEN idx ELSE IndexAddAll(IndexAdd(idx, f, Head(ds)), f, Tail(ds))

\* an emptied Set left in the reverse index
IndexRemove_KeepEmpty(idx, f, d) == IF ~idx[d].has THEN idx ELSE [idx EXCEPT ![d].ids = @ \ {f}]

\* "Clean up reverse index" / "Update reverse index": the fleet id is taken
\* out of the device's Set and an emptied Set is deleted
IndexRemove(idx, f, d) == IF ~idx[d].has THEN idx ELSE IF idx[d].ids \ {f} = {} THEN [idx EXCEPT ![d] = NoEntry] ELSE [idx EXCEPT ![d].ids = @ \ {f}]

RECURSIVE IndexRemoveAll(_, _, _)
IndexRemoveAll(idx, f, ds) == IF ds = <<>> THEN idx ELSE IndexRemoveAll(IndexRemove(idx, f, Head(ds)), f, Tail(ds))

\* fleet.members.set(deviceId, ...): a new key goes to the end
MembersAfterAdd(ms, d) == IF d \in Range(ms) THEN ms ELSE Append(ms, d)

\* the "for (const deviceId of dto.deviceIds)" loop of createFleet over the
\* members Map: a device id given twice is one member
RECURSIVE AddAllMembers(_, _)
AddAllMembers(ms, ds) == IF ds = <<>> THEN ms ELSE AddAllMembers(MembersAfterAdd(ms, Head(ds)), Tail(ds))

\* createFleet: the generated id is a fresh one
CreateFleet(f, ds) ==
  /\ ~fleets[f].exists
  /\ fleets' = [fleets EXCEPT ![f] = [exists |-> TRUE, members |-> AddAllMembers(<<>>, ds)]]
  /\ deviceToFleets' = IndexAddAll(deviceToFleets, f, ds)
  /\ UNCHANGED <<kind, subscriptions, attaches, completed, deviceInfo, deviceStream, pendingAcks, inner, calls, destroyed, fanouts, bcasts>>

DeleteFleet(f) ==
  /\ fleets[f].exists
  /\ fleets' = [fleets EXCEPT ![f] = NoFleet]
  /\ deviceToFleets' = IndexRemoveAll(deviceToFleets, f, fleets[f].members)
  /\ UNCHANGED <<kind, subscriptions, attaches, completed, deviceInfo, deviceStream, pendingAcks, inner, calls, destroyed, fanouts, bcasts>>

AddDeviceToFleet(f, d) ==
  /\ fleets[f].exists
  /\ fleets' = [fleets EXCEPT ![f].members = MembersAfterAdd(@, d)]
  /\ deviceToFleets' = IndexAdd(deviceToFleets, f, d)
  /\ UNCHANGED <<kind, subscriptions, attaches, completed, deviceInfo, deviceStream, pendingAcks, inner, calls, destroyed, fanouts, bcasts>>

RemoveDeviceFromFleet(f, d) ==
  /\ fleets[f].exists
  /\ d \in Range(fleets[f].members)
  /\ fleets' = [fleets EXCEPT ![f].members = SelectSeq(@, LAMBDA x : x # d)]
  /\ deviceToFleets' = IndexRemove(deviceToFleets, f, d)
  /\ UNCHANGED <<kind, subscriptions, attaches, completed, deviceInfo, deviceStream, pendingAcks, inner, calls, destroyed, fanouts, bcasts>>

\* ------------------------------------------------------ fleet broadcast
\* the frames a broadcast sends: broadcastCommand builds one per member with
\* the caller's commandBuilder (which may throw), broadcastContent sends the
\* same ContentPackage to every member
Builders(k) == IF k = "command" THEN [Devices -> CorrIds \cup {"throw"}] ELSE {[d \in Devices |-> c] : c \in CorrIds}

\* the lookup left out: every id taken for a fleet
FleetFound_Any(f) == TRUE

FleetFound(f) == fleets[f].exists

\* "throw new Error(`Fleet ${fleetId} not found`)"
ThrownFanout(f) == [fleet |-> f, thrown |-> TRUE, members |-> <<>>, builder |-> <<>>, requiresAck |-> FALSE, pos |-> 0, cur |-> 0, targetDevices |-> 0, successful |-> 0, failed |-> 0, failures |-> <<>>, ackResults |-> <<>>, sent |-> <<>>, returned |-> FALSE]

\* the result object and the loop position of a broadcast; sent lists the
\* dispatch calls it has made so far
NewFanout(f, b, ra) == [fleet |-> f, thrown |-> FALSE, members |-> fleets[f].members, builder |-> b, requiresAck |-> ra, pos |-> 1, cur |-> 0, targetDevices |-> Len(fleets[f].members), successful |-> 0, failed |-> 0, failures |-> <<>>, ackResults |-> <<>>, sent |-> <<>>, returned |-> FALSE]

DefaultReason == IF kind = "command" THEN "Command failed" ELSE "Content delivery failed"

\* failed dispatches left out of the count
Tally_SuccessOnly(fo, d, r) == IF r.success THEN [fo EXCEPT !.successful = @ + 1] ELSE fo

\* the body of the loop after the await
Tally(fo, d, r) ==
  LET acks == IF kind = "command" THEN Append(fo.ackResults, [deviceId |-> d, success |-> r.success, timedOut |-> r.timedOut]) ELSE fo.ackResults
  IN IF r.success
       THEN [fo EXCEPT !.successful = @ + 1, !.ackResults = acks]
       ELSE [fo EXCEPT !.failed = @ + 1, !.ackResults = acks, !.failures = Append(@, [deviceId |-> d, reason |-> IF r.errorMessage = "" THEN DefaultReason ELSE r.errorMessage])]

\* the catch branch (the commandBuilder threw)
TallyThrown(fo, d) == [fo EXCEPT !.failed = @ + 1, !.failures = Append(@, [deviceId |-> d, reason |-> "error"]), !.ackResults = Append(@, [deviceId |-> d, success |-> FALSE, timedOut |-> FALSE])]

\* the loop reading the fleet's member Map as it is now
TargetsOf_Live(fo) == fleets[fo.fleet].members

\* "const members = Array.from(fleet.members.keys())": the loop runs over
\* the array made when the broadcast was called
TargetsOf(fo) == fo.members

\* "for (const deviceId of members) { ... await ... }" from member fo.pos on:
\* the loop runs on until a send returns a promise that is still pending
RECURSIVE RunFanout(_, _)
RunFanout(s, fo) ==
  IF fo.pos > Len(TargetsOf(fo))
    THEN [s |-> s, fo |-> [fo EXCEPT !.cur = 0, !.returned = TRUE]]
    ELSE LET d == TargetsOf(fo)[fo.pos]
         IN IF fo.builder[d] = "throw"
              THEN RunFanout(s, [TallyThrown(fo, d) EXCEPT !.pos = @ + 1])
              ELSE LET s1 == SendIn(s, d, fo.builder[d], fo.requiresAck)
                       k == Len(s1.calls)
                       fo1 == [fo EXCEPT !.sent = Append(@, k)]
                   IN IF s1.calls[k].result.by = "none"
                        THEN [s |-> s1, fo |-> [fo1 EXCEPT !.cur = k]]
                        ELSE RunFanout(s1, [Tally(fo1, d, s1.calls[k].result) EXCEPT !.pos = @ + 1])

\* FleetService.broadcastCommand / broadcastContent up to the first await
\* that has to wait
FleetBroadcast(f, b, ra) ==
  /\ Len(fanouts) < MaxFanouts
  /\ Len(calls) + Len(fleets[f].members) <= MaxCalls
  /\ b \in Builders(kind)
  /\ IF ~FleetFound(f)
       THEN /\ fanouts' = Append(fanouts, ThrownFanout(f))
            /\ UNCHANGED <<pendingAcks, inner, calls>>
       ELSE LET r == RunFanout(Table, NewFanout(f, b, ra))
            IN /\ fanouts' = Append(fanouts, r.fo)
               /\ pendingAcks' = r.s.pendingAcks
               /\ inner' = r.s.inner
               /\ calls' = r.s.calls
  /\ UNCHANGED <<kind, subscriptions, attaches, completed, deviceInfo, deviceStream, destroyed, fleets, deviceToFleets, bcasts>>

\* the awaited promise of broadcast n has been resolved
CanResume(n) == n \in DOMAIN fanouts /\ fanouts[n].cur # 0 /\ calls[fanouts[n].cur].result.by # "none"

\* the continuation of the broadcast after its await: the result is counted
\* and the loop goes on with the next member
FleetResume(n) ==
  /\ CanResume(n)
  /\ LET fo == fanouts[n]
         r == RunFanout(Table, [Tally(fo, fo.members[fo.pos], calls[fo.cur].result) EXCEPT !.pos = @ + 1, !.cur = 0])
     IN /\ fanouts' = [fanouts EXCEPT ![n] = r.fo]
        /\ pendingAcks' = r.s.pendingAcks
        /\ inner' = r.s.inner
        /\ calls' = r.s.calls
  /\ UNCHANGED <<kind, subscriptions, attaches, completed, deviceInfo, deviceStream, destroyed, fleets, deviceToFleets, bcasts>>

\* ------------------------------------------------- send-to-all calls
\* the dispatches that the fleet broadcasts in flight have still to make
RECURSIVE Outstanding(_)
Outstanding(n) == IF n = 0 THEN 0 ELSE Outstanding(n - 1) + (IF fanouts[n].returned \/ fanouts[n].thrown THEN 0 ELSE Len(fanouts[n].members) - fanouts[n].pos)

\* the orders in which the registry Map can list the connected devices
ConnectedLists == {ds \in MemberLists : Range(ds) = {d \in Devices : Connected(d)}}

\* "for (const [deviceId, stream$] of this.subscriptions)" of broadcast /
\* broadcastCommand from device k on: every send is made in the same turn
RECURSIVE RunBroadcast(_, _, _)
RunBroadcast(s, b, k) ==
  IF k > Len(b.devices)
    THEN [s |-> s, b |-> b]
    ELSE LET s1 == SendIn(s, b.devices[k], b.cid, b.requiresAck)
         IN RunBroadcast(s1, [b EXCEPT !.calls = Append(@, Len(s1.calls))], k + 1)

\* CommandPublisherService.broadcastCommand / ContentPublisherService.broadcast
BroadcastAll(cid, ra, ds) ==
  /\ Len(bcasts) < MaxBroadcasts
  /\ ds \in ConnectedLists
  /\ Len(calls) + Outstanding(Len(fanouts)) + Len(ds) <= MaxCalls
  /\ LET r == RunBroadcast(Table, NewBcast(FALSE, cid, ra, ds), 1)
     IN /\ bcasts' = Append(bcasts, r.b)
        /\ pendingAcks' = r.s.pendingAcks
        /\ inner' = r.s.inner
        /\ calls' = r.s.calls
  /\ UNCHANGED fleetVars
  /\ UNCHANGED <<kind, subscriptions, attaches, completed, deviceInfo, deviceStream, destroyed>>

\* Promise.all(promises) has resolved
BroadcastReturned(b) == \A k \in Range(b.calls) : calls[k].result.by # "none"

\* formatBroadcastResponse
FormatBroadcastResponse(b) == [total_devices |-> Len(b.calls), successful |-> Cardinality({k \in Range(b.calls) : calls[k].result.success}), failed |-> Cardinality({k \in Range(b.calls) : ~calls[k].result.success}), timed_out |-> Cardinality({k \in Range(b.calls) : ~calls[k].result.success /\ calls[k].result.timedOut})]

\* the loop of broadcastStream from device k on: publishToDeviceStream and
\* the subscribe of the device's stream, whose updates made in the same turn
\* (no ack required) reach the next and complete callbacks at once
RECURSIVE RunBroadcastStream(_, _, _)
RunBroadcastStream(s, b, k) ==
  IF k > Len(b.devices)
    THEN [s |-> s, b |-> b]
    ELSE LET s1 == StreamIn(s, b.devices[k], b.cid, b.requiresAck)
             c == s1.calls[Len(s1.calls)]
             b1 == [b EXCEPT !.calls = Append(@, Len(s1.calls))]
         IN RunBroadcastStream(s1, IF c.updates = <<>> THEN b1 ELSE OnUpdate(b1, c.dev, LastUpdate(c)), k + 1)

\* the run over no device left open
EmptyBroadcastStream_Open(b) == b

\* "if (totalDevices === 0)": complete{0, 0, 0} and subscriber.complete()
EmptyBroadcastStream(b) == CloseBcast(PushEvent(b, CompleteEvent(b)))

\* ContentPublisherService.broadcastStream, subscribed by the HTTP handler
BroadcastStream(cid, ra, ds) ==
  /\ kind = "content"
  /\ Len(bcasts) < MaxBroadcasts
  /\ ds \in ConnectedLists
  /\ Len(calls) + Outstanding(Len(fanouts)) + Len(ds) <= MaxCalls
  /\ LET b0 == PushEvent(NewBcast(TRUE, cid, ra, ds), StartedEvent(NewBcast(TRUE, cid, ra, ds)))
         r == IF Len(ds) = 0 THEN [s |-> Table, b |-> EmptyBroadcastStream(b0)] ELSE RunBroadcastStream(Table, b0, 1)
     IN /\ bcasts' = Append(bcasts, r.b)
        /\ pendingAcks' = r.s.pendingAcks
        /\ inner' = r.s.inner
        /\ calls' = r.s.calls
  /\ UNCHANGED fleetVars
  /\ UNCHANGED <<kind, subscriptions, attaches, completed, deviceInfo, deviceStream, destroyed>>

\* The consumer of broadcastStream goes away (res.on("close")): the teardown
\* unsubscribes from every device's stream
CancelBroadcast(n) ==
  /\ n \in DOMAIN bcasts
  /\ bcasts[n].streaming
  /\ ~bcasts[n].closed
  /\ ~bcasts[n].cancelled
  /\ bcasts' = [bcasts EXCEPT ![n].cancelled = TRUE]
  /\ calls' = [i \in DOMAIN calls |-> IF i \in Range(bcasts[n].calls) /\ ~calls[i].ended THEN [calls[i] EXCEPT !.unsubscribed = TRUE] ELSE calls[i]]
  /\ UNCHANGED fleetVars
  /\ UNCHANGED <<kind, subscriptions, attaches, completed, deviceInfo, deviceStream, pendingAcks, inner, destroyed>>

\* ----------------------------------------------------------- HTTP layer
\* the texts of the model that contain "not connected": the publisher's own
\* errorMessage and a failure text reported by a device
NotConnectedTexts == {"Device not connected", "HDMI not connected"}

\* errorMessage?.includes("not connected")
IncludesNotConnected(msg) == msg \in NotConnectedTexts

\* formatResponse under @HttpCode(HttpStatus.OK): the status of the HTTP
\* answer to a unary dispatch that returned result r
FormatResponse(r) == IF r.success THEN 200 ELSE IF IncludesNotConnected(r.errorMessage) THEN 503 ELSE IF r.timedOut THEN 408 ELSE 502

\* formatFleetCommandResponse under @HttpCode(HttpStatus.OK): the status of
\* the HTTP answer to a fleet command whose broadcast returned fo
\* (REQUEST_TIMEOUT 408, BAD_GATEWAY 502, PARTIAL_CONTENT 206)
FormatFleetCommandResponse(fo) == IF fo.failed > 0 THEN (IF fo.successful = 0 THEN (IF \E k \in DOMAIN fo.ackResults : fo.ackResults[k].timedOut THEN 408 ELSE 502) ELSE 206) ELSE 200

\* --------------------------------------------------------------- Next
\* The unary dispatch engine of both services
Next ==
  \/ \E d \in Devices : Subscribe(d)
  \/ \E d \in Devices, cid \in CorrIds, ra \in BOOLEAN : SendToDevice(d, cid, ra)
  \/ \E d \in Devices, cid \in CorrIds, st \in CommandStatuses \cup ContentStatuses, msg \in Messages : Acknowledge(d, cid, st, msg)
  \/ \E i \in 1..MaxCalls : TimerFire(i)
  \/ OnModuleDestroy

Spec == Init /\ [][Next]_vars

\* The same engine together with the devices closing their streams
NextClose ==
  \/ Next
  \/ \E d \in Devices : DeviceClose(d)

SpecClose == Init /\ [][NextClose]_vars

\* Unary and streaming dispatches to one device
StreamDevices == {"d1"}
StreamMessages == {"m1"}

NextStream ==
  \/ \E d \in StreamDevices : Subscribe(d)
  \/ \E d \in StreamDevices, cid \in CorrIds, ra \in BOOLEAN : SendToDevice(d, cid, ra)
  \/ \E d \in StreamDevices, cid \in CorrIds, ra \in BOOLEAN : StreamToDevice(d, cid, ra)
  \/ \E d \in StreamDevices, cid \in CorrIds, st \in CommandStatuses \cup ContentStatuses, msg \in StreamMessages : Acknowledge(d, cid, st, msg)
  \/ \E i \in 1..MaxCalls : TimerFire(i)
  \/ \E i \in 1..MaxCalls : Cancel(i)
  \/ OnModuleDestroy

SpecStream == Init /\ [][NextStream]_vars

\* The fleet service on top of the unary engine. The continuation of a
\* broadcast is a promise job: it runs before the next handler or timer.
FleetMessages == {"m1"}

FleetCanResume == \E n \in DOMAIN fanouts : CanResume(n)

NextFleet ==
  \/ \E n \in 1..MaxFanouts : FleetResume(n)
  \/ \E f \in FleetIds, ds \in MemberLists : ~FleetCanResume /\ CreateFleet(f, ds)
  \/ \E f \in FleetIds : ~FleetCanResume /\ DeleteFleet(f)
  \/ \E f \in FleetIds, d \in Devices : ~FleetCanResume /\ AddDeviceToFleet(f, d)
  \/ \E f \in FleetIds, d \in Devices : ~FleetCanResume /\ RemoveDeviceFromFleet(f, d)
  \/ \E f \in FleetIds, b \in Builders(kind), ra \in BOOLEAN : ~FleetCanResume /\ FleetBroadcast(f, b, ra)
  \/ \E d \in Devices : ~FleetCanResume /\ Subscribe(d)
  \/ \E d \in Devices, cid \in CorrIds, st \in CommandStatuses \cup ContentStatuses, msg \in FleetMessages : ~FleetCanResume /\ Acknowledge(d, cid, st, msg)
  \/ \E i \in 1..MaxCalls : ~FleetCanResume /\ TimerFire(i)
  \/ ~FleetCanResume /\ OnModuleDestroy

SpecFleet == Init /\ [][NextFleet]_vars

\* device id lists of a CreateFleetDto, a repeated id included
DtoLists == MemberLists \cup {<<"d1", "d1">>, <<"d2", "d1", "d2">>}

\* The fleet management calls alone, over several fleets
NextIndex ==
  \/ \E f \in AllFleetIds, ds \in DtoLists : CreateFleet(f, ds)
  \/ \E f \in AllFleetIds : DeleteFleet(f)
  \/ \E f \in AllFleetIds, d \in Devices : AddDeviceToFleet(f, d)
  \/ \E f \in AllFleetIds, d \in Devices : RemoveDeviceFromFleet(f, d)

SpecIndex == Init /\ [][NextIndex]_vars

\* the acknowledgements of the send-to-all runs: one progress status, the
\* successful and one failing terminal status
AllStatuses == {"RECEIVED", "COMPLETED", "FAILED"}

\* The send-to-all calls of the publishers over the unary and streaming engine
NextAll ==
  \/ \E d \in Devices : Subscribe(d)
  \/ \E cid \in CorrIds, ra \in BOOLEAN, ds \in MemberLists : BroadcastAll(cid, ra, ds)
  \/ \E cid \in CorrIds, ra \in BOOLEAN, ds \in MemberLists : BroadcastStream(cid, ra, ds)
  \/ \E n \in 1..MaxBroadcasts : CancelBroadcast(n)
  \/ \E d \in Devices, cid \in CorrIds, ra \in BOOLEAN : SendToDevice(d, cid, ra)
  \/ \E d \in Devices, cid \in CorrIds, st \in AllStatuses, msg \in FleetMessages : Acknowledge(d, cid, st, msg)
  \/ \E i \in 1..MaxCalls : TimerFire(i)
  \/ OnModuleDestroy

SpecAll == Init /\ [][NextAll]_vars

\* The HTTP endpoints of the unary dispatch to one device; the device reports
\* failures with either text
HttpMessages == {"m1", "HDMI not connected"}

NextHttp ==
  \/ \E d \in StreamDevices : Subscribe(d)
  \/ \E d \in StreamDevices, cid \in CorrIds, ra \in BOOLEAN : SendToDevice(d, cid, ra)
  \/ \E d \in StreamDevices, cid \in CorrIds, st \in CommandStatuses \cup ContentStatuses, msg \in HttpMessages : Acknowledge(d, cid, st, msg)
  \/ \E i \in 1..MaxCalls : TimerFire(i)
  \/ OnModuleDestroy

SpecHttp == Init /\ [][NextHttp]_vars

\* Every fan-out of the hub (fleet broadcast, unary and streaming send-to-all)
\* over a registry and a fleet of at most one device
TargetDevices == {"d1"}
TargetLists == {<<>>, <<"d1">>}

NextTargets ==
  \/ \E n \in 1..MaxFanouts : FleetResume(n)
  \/ \E f \in FleetIds, ds \in TargetLists : ~FleetCanResume /\ CreateFleet(f, ds)
  \/ \E f \in FleetIds, d \in TargetDevices : ~FleetCanResume /\ RemoveDeviceFromFleet(f, d)
  \/ \E f \in FleetIds, b \in Builders(kind), ra \in BOOLEAN : ~FleetCanResume /\ FleetBroadcast(f, b, ra)
  \/ \E d \in TargetDevices : ~FleetCanResume /\ Subscribe(d)
  \/ \E cid \in CorrIds, ra \in BOOLEAN, ds \in TargetLists : ~FleetCanResume /\ BroadcastAll(cid, ra, ds)
  \/ \E cid \in CorrIds, ra \in BOOLEAN, ds \in TargetLists : ~FleetCanResume /\ BroadcastStream(cid, ra, ds)
  \/ \E n \in 1..MaxBroadcasts : ~FleetCanResume /\ CancelBroadcast(n)
  \/ \E d \in TargetDevices, cid \in CorrIds, st \in AllStatuses, msg \in FleetMessages : ~FleetCanResume /\ Acknowledge(d, cid, st, msg)
  \/ \E i \in 1..MaxCalls : ~FleetCanResume /\ TimerFire(i)
  \/ ~FleetCanResume /\ OnModuleDestroy

SpecTargets == Init /\ [][NextTargets]_vars

\* Unary dispatches to one device, every armed timer eventually firing
NextLive ==
  \/ \E d \in StreamDevices : Subscribe(d)
  \/ \E d \in StreamDevices, cid \in CorrIds, ra \in BOOLEAN : SendToDevice(d, cid, ra)
  \/ \E d \in StreamDevices, cid \in CorrIds, st \in CommandStatuses \cup ContentStatuses, msg \in StreamMessages : Acknowledge(d, cid, st, msg)
  \/ \E i \in 1..MaxCalls : TimerFire(i)
  \/ OnModuleDestroy

SpecLive == Init /\ [][NextLive]_vars /\ \A i \in 1..MaxCalls : WF_vars(TimerFire(i))

\* ------------------------------------------------------------ claims
\* an ack-required unary dispatch whose frame was written and whose promise
\* is still unsettled
InFlight(i) == calls[i].requiresAck /\ ~calls[i].streaming /\ calls[i].wrote # 0 /\ calls[i].result.by = "none"

\* no other ack-required dispatch to the same device carried the same
\* correlation id
UniqueId(i) == \A j \in DOMAIN calls : (j # i /\ calls[j].dev = calls[i].dev /\ calls[j].cid = calls[i].cid) => (~calls[j].requiresAck \/ calls[j].wrote = 0)

\* C1: the final result of every waiter is written exactly once; in
\* particular, once a waiter's own timeout has fired (the last event of its
\* event space that can still write) its result has been written.
C1_WrittenExactlyOnce == \A i \in DOMAIN calls : calls[i].timer = "fired" => calls[i].result.by # "none"

\* C2: an in-flight ack-required unary dispatch whose correlation id is its
\* own, whose timeout has not fired and whose session is still the registered
\* one is the waiter the table holds for (device, correlation id), so that a
\* terminal ack delivered now is routed to it and decides its result.
C2_AckReachesWaiter == \A i \in DOMAIN calls : (InFlight(i) /\ UniqueId(i) /\ calls[i].timer = "armed" /\ subscriptions[calls[i].dev] = calls[i].wrote) => Pending(calls[i].dev, calls[i].cid) = i

\* C3: when device d attaches again, every in-flight ack-required unary
\* dispatch written to d's replaced session resolves in that step with
\* "Device disconnected" (success false, timedOut false), and right after the
\* step the pending-ack table has no entry for d.
C3_ReplaceDisconnects == [][\A d \in Devices : (attaches'[d] = attaches[d] + 1 /\ subscriptions[d] # 0) => (/\ pendingAcks'[d] = 0
   /\ \A i \in DOMAIN calls : (calls[i].dev = d /\ InFlight(i) /\ UniqueId(i) /\ calls[i].wrote = subscriptions[d]) => (calls'[i].result.by = "disconnected" /\ ~calls'[i].result.success /\ ~calls'[i].result.timedOut /\ calls'[i].result.errorMessage = "Device disconnected"))]_vars

\* C4: once a device has closed its stream, the registry holds no session
\* for it and the pending-ack table no waiter.
C4_CloseDestroysSession == \A d \in Devices : (attaches[d] > 0 /\ deviceStream[d] = 0) => (subscriptions[d] = 0 /\ pendingAcks[d] = 0)

\* no terminal ack has resolved a dispatch under the device and correlation
\* id of call i
NoAckArrived(i) == \A j \in DOMAIN calls : (calls[j].dev = calls[i].dev /\ calls[j].cid = calls[i].cid) => calls[j].result.by # "ack"

\* C5: when the timeout of an ack-required dispatch fires and no terminal ack
\* has arrived for its correlation id and the dispatch has not been resolved,
\* it resolves in that step with timedOut = true and success = false, and the
\* table no longer holds a waiter under its (device, correlation id), so that
\* later acks for it find nothing.
C5_TimeoutResolves == [][\A i \in DOMAIN calls : (calls[i].timer = "armed" /\ calls'[i].timer = "fired" /\ InFlight(i) /\ NoAckArrived(i)) => (/\ calls'[i].result.by = "timeout"
   /\ calls'[i].result.timedOut
   /\ ~calls'[i].result.success
   /\ Pending(calls[i].dev, calls[i].cid)' = 0)]_vars

\* the terminal statuses of each stream kind
TerminalStatuses == IF kind = "command" THEN {"COMPLETED", "FAILED", "REJECTED"} ELSE {"COMPLETED", "PARTIAL", "FAILED"}

\* C6: a dispatch is resolved by an ack only when the ack's status is
\* terminal for the stream kind; an ack with any other status leaves the
\* dispatch unresolved, its stream open and the pending-ack table unchanged,
\* and a unary waiter leaves the table through an ack only by being resolved
\* with a terminal status.
C6_OnlyFinalAckResolves == [][\A i \in DOMAIN calls :
   /\ (calls[i].result.by = "none" /\ calls'[i].result.by = "ack") => calls'[i].result.status \in TerminalStatuses
   /\ (Len(calls'[i].updates) = Len(calls[i].updates) + 1 /\ LastUpdate(calls'[i]).by = "ack") =>
        IF LastUpdate(calls'[i]).status \in TerminalStatuses
          THEN calls'[i].ended /\ LastUpdate(calls'[i]).isFinal
          ELSE ~calls'[i].ended /\ ~LastUpdate(calls'[i]).isFinal /\ pendingAcks' = pendingAcks /\ inner' = inner
   /\ (~calls[i].streaming /\ Pending(calls[i].dev, calls[i].cid) = i /\ Pending(calls[i].dev, calls[i].cid)' # i /\ attaches' = attaches /\ destroyed' = destroyed /\ Len(calls') = Len(calls) /\ \A j \in DOMAIN calls : calls'[j].timer = calls[j].timer) =>
        (calls'[i].result.by = "ack" /\ calls'[i].result.status \in TerminalStatuses)]_vars

C6_Witness == \E i \in DOMAIN calls : calls[i].streaming /\ Len(calls[i].updates) = 1 /\ calls[i].updates[1].status = "IN_PROGRESS" /\ ~calls[i].ended /\ Pending(calls[i].dev, calls[i].cid) = i

\* C7: a dispatch result has success = true exactly when it comes from a
\* COMPLETED ack or from a written frame that required no ack; a PARTIAL,
\* FAILED or REJECTED ack gives success = false and the ack's message as the
\* error message.
C7_SuccessIffCompleted == \A i \in DOMAIN calls : calls[i].result.by # "none" =>
   /\ calls[i].result.success <=> ((calls[i].result.by = "ack" /\ calls[i].result.status = "COMPLETED") \/ (~calls[i].requiresAck /\ calls[i].wrote # 0))
   /\ (calls[i].result.by = "ack" /\ calls[i].result.status \in {"PARTIAL", "FAILED", "REJECTED"}) => (~calls[i].result.success /\ calls[i].result.errorMessage = calls[i].result.ackMessage)

C7_Witness == \E i \in DOMAIN calls : calls[i].result.by = "ack" /\ calls[i].result.status = "PARTIAL" /\ calls[i].result.errorMessage = "m2" /\ ~calls[i].result.success

\* C8: a unary dispatch to a device without a session returns "Device not
\* connected" (success false, timedOut false) in the same step, writes no
\* frame, arms no timer, and leaves the registry, the pending-ack table and
\* every earlier dispatch unchanged.
C8_NotConnected == [][(Len(calls') = Len(calls) + 1 /\ ~calls'[Len(calls')].streaming /\ subscriptions[calls'[Len(calls')].dev] = 0) =>
   (/\ calls'[Len(calls')].result.errorMessage = "Device not connected"
    /\ ~calls'[Len(calls')].result.success
    /\ ~calls'[Len(calls')].result.timedOut
    /\ calls'[Len(calls')].wrote = 0
    /\ calls'[Len(calls')].timer = "none"
    /\ subscriptions' = subscriptions
    /\ pendingAcks' = pendingAcks
    /\ inner' = inner
    /\ \A j \in DOMAIN calls : calls'[j] = calls[j])]_vars

C8_Witness == \E i \in DOMAIN calls : ~calls[i].streaming /\ calls[i].requiresAck /\ calls[i].result.by = "notconnected" /\ \E j \in DOMAIN calls : InFlight(j)

\* C9: every waiter in the pending-ack table belongs to a device that has a
\* session in the registry, and was written to that very session; a device
\* without a session has no entry in the table.
C9_NoOrphanWaiter == \A d \in Devices :
   /\ subscriptions[d] = 0 => pendingAcks[d] = 0
   /\ \A cid \in CorrIds : Pending(d, cid) # 0 => (subscriptions[d] # 0 /\ calls[Pending(d, cid)].wrote = subscriptions[d])

C9_Witness == \E i \in DOMAIN calls : calls[i].result.by = "disconnected" /\ pendingAcks[calls[i].dev] = 0 /\ subscriptions[calls[i].dev] # calls[i].wrote

\* C10: the registry's session of a device is the one created by the
\* device's most recent attach, and it is the only Subject of the device
\* that has not been completed.
C10_LastWriterWins == \A d \in Devices :
   /\ subscriptions[d] # 0 => subscriptions[d] = attaches[d]
   /\ \A g \in 1..attaches[d] : g \notin completed[d] => g = subscriptions[d]

C10_Witness == \E d \in Devices : attaches[d] = 2 /\ subscriptions[d] = 2 /\ 1 \in completed[d]

\* C11: when the hub shuts down, every session is completed and taken out of
\* the registry, the pending-ack table is emptied, and every waiter the table
\* held is resolved "Service shutting down": a unary waiter's promise gets
\* that result, a streaming waiter's stream gets it as its terminal update
\* and ends.
C11_ShutdownResolvesAll == [][(destroyed' /\ ~destroyed) =>
   (/\ \A d \in Devices : subscriptions'[d] = 0 /\ pendingAcks'[d] = 0 /\ (subscriptions[d] # 0 => subscriptions[d] \in completed'[d])
    /\ \A i \in DOMAIN calls : (Pending(calls[i].dev, calls[i].cid) = i /\ ~calls[i].streaming /\ calls[i].result.by = "none") => calls'[i].result.errorMessage = "Service shutting down"
    /\ \A i \in DOMAIN calls : (Pending(calls[i].dev, calls[i].cid) = i /\ calls[i].streaming /\ ~calls[i].ended /\ ~calls[i].unsubscribed) => (calls'[i].ended /\ LastUpdate(calls'[i]).errorMessage = "Service shutting down"))]_vars

C13_EventuallyReturns == \A i \in 1..MaxCalls : (i <= Len(calls) /\ ~calls[i].streaming) ~> (i <= Len(calls) /\ calls[i].result.by # "none")

\* C14: a broadcast to a fleet id that has no fleet throws "not found" in the
\* call itself: no dispatch call is made, no frame written, no waiter
\* registered, and the thrown call never sends anything later.
C14_GroupNotFound == [][/\ (Len(fanouts') = Len(fanouts) + 1 /\ ~fleets[fanouts'[Len(fanouts')].fleet].exists) => (fanouts'[Len(fanouts')].thrown /\ calls' = calls /\ pendingAcks' = pendingAcks /\ inner' = inner)
   /\ \A n \in DOMAIN fanouts' : fanouts'[n].thrown => (fanouts'[n].sent = <<>> /\ ~fanouts'[n].returned)]_vars

C14_Witness == \E n \in DOMAIN fanouts : fanouts[n].thrown /\ (\E d \in Devices : subscriptions[d] # 0) /\ calls = <<>>

\* the members of a broadcast whose dispatch did not succeed
NonSuccessful(cs, fo) == {d \in Range(fo.members) : fo.builder[d] = "throw" \/ \E k \in Range(fo.sent) : cs[k].dev = d /\ ~cs[k].result.success}

C16_ConcurrentDispatch == [][(Len(fanouts') = Len(fanouts) + 1 /\ ~fanouts'[Len(fanouts')].thrown) =>
   \A d \in Range(fanouts'[Len(fanouts')].members) : (subscriptions[d] # 0 /\ fanouts'[Len(fanouts')].builder[d] # "throw") =>
      \E k \in Range(fanouts'[Len(fanouts')].sent) : calls'[k].dev = d /\ calls'[k].wrote # 0]_vars

\* C17: the frames one broadcast has written to different devices carry
\* pairwise different correlation ids.
C17_DistinctIds == \A n \in DOMAIN fanouts : \A j, k \in Range(fanouts[n].sent) : (j # k /\ calls[j].wrote # 0 /\ calls[k].wrote # 0) => calls[j].cid # calls[k].cid

\* C18: the updates of a streaming dispatch are non-final updates followed by
\* at most one final update, after which the stream has ended; and as long as
\* the stream of an ack-required dispatch with a correlation id of its own is
\* open, its timeout has not fired and the device's session is the one it was
\* written to, the table holds its waiter, so that every ack the device sends
\* for it is echoed on the stream.
C18_StreamUpdates == \A i \in DOMAIN calls : calls[i].streaming =>
   /\ \A k \in DOMAIN calls[i].updates : calls[i].updates[k].isFinal <=> (k = Len(calls[i].updates) /\ calls[i].ended)
   /\ (calls[i].requiresAck /\ calls[i].wrote # 0 /\ ~calls[i].ended /\ ~calls[i].unsubscribed /\ calls[i].timer = "armed" /\ UniqueId(i) /\ subscriptions[calls[i].dev] = calls[i].wrote) => Pending(calls[i].dev, calls[i].cid) = i

\* C19: when device d attaches again, every open streaming dispatch whose
\* waiter the table holds for d ends in that step with the terminal update
\* "Device disconnected".
C19_StreamDisconnects == [][\A d \in Devices : (attaches'[d] = attaches[d] + 1 /\ subscriptions[d] # 0) =>
   \A i \in DOMAIN calls : (calls[i].streaming /\ calls[i].dev = d /\ Pending(d, calls[i].cid) = i /\ ~calls[i].ended /\ ~calls[i].unsubscribed) => (calls'[i].ended /\ LastUpdate(calls'[i]).errorMessage = "Device disconnected")]_vars

\* C20: once the consumer of a streaming dispatch has cancelled it, the
\* pending-ack table holds no waiter of that dispatch.
C20_CancelRemovesWaiter == \A i \in DOMAIN calls : (calls[i].streaming /\ calls[i].unsubscribed) => Pending(calls[i].dev, calls[i].cid) # i

\* ------------------------------------------------------- send-to-all claims
\* the events of a streaming send-to-all, and the places of one type in them
EventsOf(n) == bcasts[n].events

Places(n, t) == {i \in DOMAIN EventsOf(n) : EventsOf(n)[i].type = t}

\* device d's terminal update stands before place i
TerminalBefore(n, d, i) == \E j \in 1..(i - 1) : EventsOf(n)[j].type = "update" /\ EventsOf(n)[j].deviceId = d /\ EventsOf(n)[j].isFinal

\* C21: the events of a streaming send-to-all are one Started first, then
\* updates of the targeted devices, then at most one Complete, which is the
\* last event, stands after the terminal update of every targeted device and
\* ends the stream; it is there once every device's stream has ended.
C21_StartedUpdatesComplete == \A n \in DOMAIN bcasts : bcasts[n].streaming =>
   (/\ Places(n, "started") = {1}
    /\ EventsOf(n)[1].totalDevices = Len(bcasts[n].devices)
    /\ \A i \in Places(n, "update") : EventsOf(n)[i].deviceId \in Range(bcasts[n].devices)
    /\ Places(n, "complete") \subseteq {Len(EventsOf(n))}
    /\ \A i \in Places(n, "complete") : \A d \in Range(bcasts[n].devices) : TerminalBefore(n, d, i)
    /\ bcasts[n].closed <=> Places(n, "complete") # {}
    /\ (~bcasts[n].cancelled /\ \A k \in Range(bcasts[n].calls) : calls[k].ended) => Places(n, "complete") # {})

C21_Witness == \E n \in DOMAIN bcasts : bcasts[n].streaming /\ bcasts[n].requiresAck /\ bcasts[n].closed /\ Len(bcasts[n].devices) = 2 /\ Len(EventsOf(n)) >= 5 /\ bcasts[n].successfulCount = 1 /\ bcasts[n].failedCount = 1

\* C22: a streaming dispatch to a device without a session delivers exactly
\* one update, the terminal FAILED "Device not connected", and ends in the
\* same step; no frame is written, no waiter is registered, no timer is
\* armed, and the registry, the table and every earlier dispatch are unchanged.
C22_StreamNotConnected == [][(Len(calls') = Len(calls) + 1 /\ calls'[Len(calls')].streaming /\ subscriptions[calls'[Len(calls')].dev] = 0) =>
   (/\ Len(calls'[Len(calls')].updates) = 1
    /\ calls'[Len(calls')].updates[1].isFinal
    /\ calls'[Len(calls')].updates[1].status = "FAILED"
    /\ ~calls'[Len(calls')].updates[1].success
    /\ ~calls'[Len(calls')].updates[1].timedOut
    /\ calls'[Len(calls')].updates[1].errorMessage = "Device not connected"
    /\ calls'[Len(calls')].ended
    /\ calls'[Len(calls')].wrote = 0
    /\ calls'[Len(calls')].timer = "none"
    /\ calls'[Len(calls')].map = 0
    /\ subscriptions' = subscriptions
    /\ pendingAcks' = pendingAcks
    /\ inner' = inner
    /\ \A j \in DOMAIN calls : calls'[j] = calls[j])]_vars

C22_Witness == \E i \in DOMAIN calls : calls[i].streaming /\ calls[i].requiresAck /\ calls[i].ended /\ calls[i].wrote = 0 /\ Len(calls[i].updates) = 1 /\ LastUpdate(calls[i]).by = "notconnected" /\ subscriptions[calls[i].dev] = 0

\* C23: a unary dispatch of a frame that requires no ack to a connected
\* device writes the frame to the device's session and returns success
\* (not timed out, no error) in the same step; it registers no waiter, arms
\* no timer, and leaves the pending-ack table and every earlier dispatch
\* exactly as they were.
C23_NoAckDispatch == [][(Len(calls') = Len(calls) + 1 /\ ~calls'[Len(calls')].streaming /\ ~calls'[Len(calls')].requiresAck /\ Connected(calls'[Len(calls')].dev)) =>
   (/\ calls'[Len(calls')].wrote = subscriptions[calls'[Len(calls')].dev]
    /\ calls'[Len(calls')].result.by = "noack"
    /\ calls'[Len(calls')].result.success
    /\ ~calls'[Len(calls')].result.timedOut
    /\ calls'[Len(calls')].result.errorMessage = ""
    /\ calls'[Len(calls')].timer = "none"
    /\ calls'[Len(calls')].map = 0
    /\ pendingAcks' = pendingAcks
    /\ inner' = inner
    /\ \A j \in DOMAIN calls : calls'[j] = calls[j])]_vars

C23_Witness == \E i \in DOMAIN calls : ~calls[i].streaming /\ ~calls[i].requiresAck /\ calls[i].wrote # 0 /\ calls[i].result.by = "noack" /\ \E j \in DOMAIN calls : InFlight(j) /\ calls[j].dev = calls[i].dev /\ calls[j].cid = calls[i].cid

\* C24: when a requires-ack dispatch registers a waiter for a (device,
\* correlation id) pair that already has a pending waiter, the earlier
\* dispatch is resolved (as cancelled: no success) in that step and the new
\* waiter is the one registered.
C24_ReplaceCancelsOld == [][\A i \in DOMAIN calls :
   (/\ Len(calls') = Len(calls) + 1
    /\ calls'[Len(calls')].requiresAck
    /\ calls'[Len(calls')].dev = calls[i].dev
    /\ calls'[Len(calls')].cid = calls[i].cid
    /\ Connected(calls[i].dev)
    /\ Pending(calls[i].dev, calls[i].cid) = i
    /\ ~calls[i].streaming) =>
   (/\ PendingIn([pendingAcks |-> pendingAcks', inner |-> inner', calls |-> calls'], calls[i].dev, calls[i].cid) = Len(calls')
    /\ calls'[i].result.by # "none"
    /\ ~calls'[i].result.success)]_vars

\* C25: a fan-out without targets writes no frame and makes no dispatch: a
\* fleet broadcast to a fleet with zero members returns at once with
\* targetDevices, successful and failed all 0; a unary send-to-all over an
\* empty registry returns at once with total, successful and failed all 0;
\* a streaming send-to-all over an empty registry emits exactly
\* Started{total 0} and Complete{0, 0} and ends.
C25_NoTargets == [][/\ (Len(fanouts') = Len(fanouts) + 1 /\ fleets[fanouts'[Len(fanouts')].fleet].exists /\ fleets[fanouts'[Len(fanouts')].fleet].members = <<>>) =>
                      (/\ fanouts'[Len(fanouts')].returned
                       /\ fanouts'[Len(fanouts')].targetDevices = 0
                       /\ fanouts'[Len(fanouts')].successful = 0
                       /\ fanouts'[Len(fanouts')].failed = 0
                       /\ fanouts'[Len(fanouts')].failures = <<>>
                       /\ calls' = calls /\ pendingAcks' = pendingAcks /\ inner' = inner)
                   /\ (Len(bcasts') = Len(bcasts) + 1 /\ \A d \in Devices : ~Connected(d)) =>
                      (/\ calls' = calls /\ pendingAcks' = pendingAcks /\ inner' = inner
                       /\ bcasts'[Len(bcasts')].calls = <<>>
                       /\ ~bcasts'[Len(bcasts')].streaming =>
                            (/\ FormatBroadcastResponse(bcasts'[Len(bcasts')]).total_devices = 0
                             /\ FormatBroadcastResponse(bcasts'[Len(bcasts')]).successful = 0
                             /\ FormatBroadcastResponse(bcasts'[Len(bcasts')]).failed = 0)
                       /\ bcasts'[Len(bcasts')].streaming =>
                            (/\ Len(bcasts'[Len(bcasts')].events) = 2
                             /\ bcasts'[Len(bcasts')].events[1].type = "started"
                             /\ bcasts'[Len(bcasts')].events[1].totalDevices = 0
                             /\ bcasts'[Len(bcasts')].events[2].type = "complete"
                             /\ bcasts'[Len(bcasts')].events[2].totalDevices = 0
                             /\ bcasts'[Len(bcasts')].events[2].successful = 0
                             /\ bcasts'[Len(bcasts')].events[2].failed = 0
                             /\ bcasts'[Len(bcasts')].closed))]_vars

C25_Witness == /\ \E n \in DOMAIN fanouts : ~fanouts[n].thrown /\ fanouts[n].returned /\ fanouts[n].targetDevices = 0
               /\ \E n \in DOMAIN bcasts : bcasts[n].streaming /\ bcasts[n].closed /\ bcasts[n].totalDevices = 0 /\ Len(bcasts[n].events) = 2
               /\ calls = <<>>

\* C26: the Acknowledge RPC replies {accepted: true, retryAfterSeconds: 0}
\* to every acknowledgement, and an acknowledgement whose (device,
\* correlation id) has no pending waiter leaves the pending-ack table and
\* every dispatch (result and updates) unchanged.
C26_StaleAckDropped == \A d \in Devices, cid \in CorrIds, st \in StatusesOf(kind) :
   /\ AcknowledgeResponse(d, cid, st) = [accepted |-> TRUE, retryAfterSeconds |-> 0]
   /\ Pending(d, cid) = 0 => \A msg \in Messages : AckIn(Table, d, cid, st, msg) = Table

C26_Witness == \E i \in DOMAIN calls : calls[i].result.by = "ack" /\ Pending(calls[i].dev, calls[i].cid) = 0 /\ pendingAcks[calls[i].dev] # 0 /\ \E d \in Devices : attaches[d] = 0

\* C27: the HTTP answer to a unary dispatch has status 200 exactly when the
\* result is a success, 503 when the device was not connected, 408 when the
\* waiter timed out, and 502 for every other failure (a FAILED, REJECTED or
\* PARTIAL acknowledgement, a disconnection, a shutdown).
C27_HttpStatus == \A i \in DOMAIN calls : (~calls[i].streaming /\ calls[i].result.by # "none") =>
   FormatResponse(calls[i].result) = (IF calls[i].result.success THEN 200 ELSE IF calls[i].result.by = "notconnected" THEN 503 ELSE IF calls[i].result.by = "timeout" THEN 408 ELSE 502)

\* C28: the HTTP answer to a fleet command has status 200 when every member
\* succeeded, 207 when some but not all members succeeded, and 502 when
\* every member failed.
C28_FleetCommandStatus == \A n \in DOMAIN fanouts : (kind = "command" /\ fanouts[n].returned) =>
   FormatFleetCommandResponse(fanouts[n]) = (IF fanouts[n].failed = 0 THEN 200 ELSE IF fanouts[n].successful = 0 THEN 502 ELSE 207)

\* the event that determined dispatch i: "ack", "timeout", another event, or
\* "none" while it is undetermined
DeterminedBy(c) == IF c.streaming THEN (IF c.ended THEN LastUpdate(c).by ELSE "none") ELSE c.result.by

C30_TimerDropped == [][\A i \in DOMAIN calls :
   (calls[i].timer = "armed" /\ calls'[i].timer = "fired" /\ calls[i].result.by \in {"disconnected", "shutdown"}) =>
   (/\ \A j \in DOMAIN calls : calls'[j].result = calls[j].result /\ calls'[j].updates = calls[j].updates
    /\ pendingAcks' = pendingAcks
    /\ \A d \in Devices, cid \in CorrIds : PendingIn([pendingAcks |-> pendingAcks', inner |-> inner', calls |-> calls'], d, cid) = Pending(d, cid))]_vars

\* the publisher state after the step
TableAfter == [pendingAcks |-> pendingAcks', inner |-> inner', calls |-> calls']

\* C31: the step of a streaming dispatch that writes a frame requiring an
\* ack also registers the dispatch's waiter with its progress sink and arms
\* its timer, so that an ack for the frame processed right after the step,
\* whatever its status, is delivered to the dispatch's stream.
C31_WriteAndRegister == [][\A k \in (Len(calls) + 1)..Len(calls') :
   (calls'[k].streaming /\ calls'[k].requiresAck /\ calls'[k].wrote # 0) =>
   (/\ PendingIn(TableAfter, calls'[k].dev, calls'[k].cid) = k
    /\ calls'[k].timer = "armed"
    /\ \A st \in ContentStatuses : LET after == AckIn(TableAfter, calls'[k].dev, calls'[k].cid, st, "m1").calls[k]
                                   IN Len(after.updates) = 1 /\ after.updates[1].status = st /\ after.updates[1].by = "ack")]_vars

C31_Witness == \E i \in DOMAIN calls : calls[i].streaming /\ calls[i].requiresAck /\ calls[i].wrote # 0 /\ calls[i].updates = <<>> /\ calls[i].timer = "armed" /\ Pending(calls[i].dev, calls[i].cid) = i /\ \E j \in DOMAIN calls : j < i /\ calls[j].dev = calls[i].dev /\ Pending(calls[j].dev, calls[j].cid) = j

\* C32: a non-final ack leaves the waiter registered and its timer, armed
\* at registration, armed as it was; and when the timer of a waiter that is
\* still registered fires, the dispatch is resolved as timed out (a terminal
\* "ACK timeout" update for a stream, a timedOut result for a unary call)
\* whatever progress acks it received before.
C32_ProgressKeepsDeadline == [][\A i \in DOMAIN calls : (calls[i].timer = "armed" /\ Pending(calls[i].dev, calls[i].cid) = i) =>
   (/\ (Len(calls'[i].updates) = Len(calls[i].updates) + 1 /\ ~LastUpdate(calls'[i]).isFinal) =>
          (calls'[i].timer = "armed" /\ PendingIn(TableAfter, calls[i].dev, calls[i].cid) = i)
    /\ (calls'[i].timer = "fired" /\ calls[i].streaming /\ ~calls[i].unsubscribed) =>
          (/\ Len(calls'[i].updates) = Len(calls[i].updates) + 1
           /\ LastUpdate(calls'[i]).isFinal /\ LastUpdate(calls'[i]).timedOut /\ ~LastUpdate(calls'[i]).success
           /\ calls'[i].ended
           /\ PendingIn(TableAfter, calls[i].dev, calls[i].cid) = 0)
    /\ (calls'[i].timer = "fired" /\ ~calls[i].streaming) => (calls'[i].result.by = "timeout" /\ calls'[i].result.timedOut))]_vars

C32_Witness == \E i \in DOMAIN calls : calls[i].streaming /\ Len(calls[i].updates) = 2 /\ calls[i].updates[1].by = "ack" /\ ~calls[i].updates[1].isFinal /\ calls[i].updates[2].by = "timeout" /\ calls[i].updates[2].timedOut /\ calls[i].timer = "fired"

\* C33: in every reachable state every outbound sink (Subject) that was
\* created for a device and has not been completed is the session the
\* registry holds for that device: a session taken out of the registry by
\* detach, replacement or shutdown has a closed sink.
C33_NoStraySink == \A d \in Devices : \A s \in 1..attaches[d] : s \notin completed[d] => subscriptions[d] = s

C33_Witness == destroyed /\ \E d \in Devices : attaches[d] = 2 /\ completed[d] = {1, 2} /\ subscriptions[d] = 0 /\ \E e \in Devices : e # d /\ attaches[e] = 1 /\ subscriptions[e] = 1

\* C34: a fleet broadcast targets the devices that were members of the
\* fleet when it was called: its target list is the membership at the call
\* and never changes afterwards, whatever is added to, removed from or
\* deleted with the fleet meanwhile; each frame it sends goes to a device of
\* that list, at most one per device; and when it returns, every device of
\* the list has been dispatched to or counted as failed, with successful +
\* failed equal to the length of the list.
C34_MembershipSnapshot == [][\A n \in DOMAIN fanouts' : ~fanouts'[n].thrown =>
   (/\ n \notin DOMAIN fanouts => (fanouts'[n].members = fleets[fanouts'[n].fleet].members /\ fanouts'[n].targetDevices = Len(fleets[fanouts'[n].fleet].members))
    /\ n \in DOMAIN fanouts => (fanouts'[n].members = fanouts[n].members /\ fanouts'[n].targetDevices = fanouts[n].targetDevices)
    /\ \A k \in Range(fanouts'[n].sent) : calls'[k].dev \in Range(fanouts'[n].members)
    /\ \A j, k \in Range(fanouts'[n].sent) : j # k => calls'[j].dev # calls'[k].dev
    /\ fanouts'[n].returned =>
         (/\ fanouts'[n].successful + fanouts'[n].failed = Len(fanouts'[n].members)
          /\ \A d \in Range(fanouts'[n].members) : fanouts'[n].builder[d] = "throw" \/ \E k \in Range(fanouts'[n].sent) : calls'[k].dev = d))]_vars

C34_Witness == \E n \in DOMAIN fanouts : ~fanouts[n].thrown /\ ~fanouts[n].returned /\ fanouts[n].cur # 0 /\ fanouts[n].pos = 1 /\ Len(fanouts[n].members) = 2 /\ fleets[fanouts[n].fleet].members = <<fanouts[n].members[1]>>

\* C35: once the hub has shut down, a dispatch writes no frame to a device
\* sink and registers no waiter, also when a device has attached after the
\* shutdown.
C35_NoDispatchAfterShutdown == [][destroyed =>
   (/\ \A k \in (Len(calls) + 1)..Len(calls') : calls'[k].wrote = 0 /\ calls'[k].timer = "none"
    /\ \A d \in Devices, cid \in CorrIds : PendingIn(TableAfter, d, cid) = 0)]_vars

\* device e's part of publisher state s and of the registry is as it is now
SameFor(s, e) ==
  /\ s.pendingAcks[e] = pendingAcks[e]
  /\ \A cid \in CorrIds : PendingIn(s, e, cid) = Pending(e, cid)
  /\ \A i \in DOMAIN calls : calls[i].dev = e => s.calls[i] = calls[i]

\* C36: what concerns device d leaves every other device's waiters,
\* dispatches and session as they were, dispatches under the same
\* correlation id included: an ack for d of any id and status; the timer of
\* a dispatch to d; the detach or replacement of d's session.
C36_DeviceIsolation == [][/\ \A d \in Devices, cid \in CorrIds, st \in AllStatuses : \A e \in Devices \ {d} : SameFor(AckIn(Table, d, cid, st, "m1"), e)
                          /\ \A i \in DOMAIN calls : (calls[i].timer = "armed" /\ calls'[i].timer = "fired") =>
                               \A e \in Devices \ {calls[i].dev} : SameFor(TableAfter, e) /\ subscriptions'[e] = subscriptions[e] /\ completed'[e] = completed[e]
                          /\ \A d \in Devices : attaches'[d] = attaches[d] + 1 =>
                               \A e \in Devices \ {d} : SameFor(TableAfter, e) /\ subscriptions'[e] = subscriptions[e] /\ completed'[e] = completed[e]]_vars

C36_Witness == \E i, j \in DOMAIN calls : calls[i].dev # calls[j].dev /\ calls[i].cid = calls[j].cid /\ calls[i].result.by = "ack" /\ Pending(calls[j].dev, calls[j].cid) = j /\ calls[j].timer = "armed" /\ \E n \in DOMAIN bcasts : Range(bcasts[n].calls) = {i, j}

\* the final updates of device d among the events of send-to-all n
FinalsOf(n, d) == {i \in Places(n, "update") : EventsOf(n)[i].deviceId = d /\ EventsOf(n)[i].isFinal}

\* C37: in a streaming send-to-all every update carries the total announced
\* by Started and a completed-devices value between 0 and that total which
\* never decreases along the stream; no targeted device has more than one
\* terminal update; and the Complete event carries the announced total, has
\* successful + failed equal to it, and follows exactly one terminal update
\* of each targeted device.
C37_StreamCounts == \A n \in DOMAIN bcasts : bcasts[n].streaming =>
   (/\ \A i \in Places(n, "update") : EventsOf(n)[i].totalDevices = EventsOf(n)[1].totalDevices /\ EventsOf(n)[i].completedDevices \in 0..EventsOf(n)[1].totalDevices
    /\ \A i, j \in Places(n, "update") : i < j => EventsOf(n)[i].completedDevices <= EventsOf(n)[j].completedDevices
    /\ \A d \in Range(bcasts[n].devices) : Cardinality(FinalsOf(n, d)) <= 1
    /\ \A i \in Places(n, "complete") :
         /\ EventsOf(n)[i].totalDevices = EventsOf(n)[1].totalDevices
         /\ EventsOf(n)[i].successful + EventsOf(n)[i].failed = EventsOf(n)[1].totalDevices
         /\ \A d \in Range(bcasts[n].devices) : Cardinality(FinalsOf(n, d)) = 1
         /\ EventsOf(n)[i].successful = Cardinality({k \in Range(bcasts[n].calls) : calls[k].ended /\ LastUpdate(calls[k]).success}))

C37_Witness == \E n \in DOMAIN bcasts : bcasts[n].streaming /\ bcasts[n].closed /\ bcasts[n].totalDevices = 2 /\ Len(EventsOf(n)) = 5 /\ (\E i \in Places(n, "update") : ~EventsOf(n)[i].isFinal) /\ EventsOf(n)[4].completedDevices = 1 /\ EventsOf(n)[5].successful = 1

\* C38: in the command registry the device ids of the connected-devices
\* snapshot (deviceInfo) are exactly the device ids with a registered
\* session (subscriptions), in every reachable state.
C38_DeviceInfoMatches == kind = "command" => deviceInfo = {d \in Devices : subscriptions[d] # 0}

C38_Witness == kind = "command" /\ destroyed /\ deviceInfo = {"d1"} /\ attaches["d1"] = 2 /\ attaches["d2"] = 1 /\ subscriptions["d2"] = 0

\* getDeviceMemberships: the fleet ids the reverse index lists for a device
GetDeviceMemberships(d) == IF deviceToFleets[d].has THEN deviceToFleets[d].ids ELSE {}

\* C39: after any sequence of fleet creations, deletions, member additions
\* and member removals the reverse index agrees with the membership: a fleet
\* is listed for a device exactly when the fleet exists and the device is
\* one of its members, and the reverse index holds no empty entry.
C39_IndexAgrees == \A d \in Devices : /\ \A f \in AllFleetIds : f \in GetDeviceMemberships(d) <=> (fleets[f].exists /\ d \in Range(fleets[f].members))
                                      /\ deviceToFleets[d].has => deviceToFleets[d].ids # {}

C39_Witness == /\ fleets["f1"] = [exists |-> TRUE, members |-> <<"d1">>]
               /\ fleets["f2"] = [exists |-> TRUE, members |-> <<"d1">>]
               /\ fleets["f3"] = [exists |-> TRUE, members |-> <<>>]
               /\ deviceToFleets["d1"] = [has |-> TRUE, ids |-> {"f1", "f2"}]
               /\ deviceToFleets["d2"] = NoEntry

TypeOK ==
  /\ kind \in Kinds
  /\ Len(calls) <= MaxCalls
  /\ TotalAttaches <= MaxSubjects
  /\ \A d \in Devices : subscriptions[d] \in 0..attaches[d] /\ pendingAcks[d] \in 0..Len(calls)
====
